---- MODULE Spec2Model ----
(***************************************************************************)
(* A model of run_regular.py: the command line is parsed, main(args) seeds *)
(* the random sources, derives the log directory, loads the data, builds   *)
(* the DataLoader and the model, trains for args.epochs epochs, generates  *)
(* a synthetic dataset, re-collects the original one and scores the pair.  *)
(*                                                                         *)
(* Each action is one statement (or one run of adjacent statements) of     *)
(* main, in source order.  Calls into code that is not part of the file    *)
(* (the KoVAE model, the data generators, the metrics, torch, numpy,       *)
(* tensorflow) are opaque: each either returns or raises, and a random     *)
(* draw is recorded against the source it draws from.                      *)
(*                                                                         *)
(* Two facts of the source shape the end of the run:                       *)
(*  - predictive_score_metrics (line 175) and visualization (lines 185-186)*)
(*    are bound by no import or definition of the file, so line 175 raises *)
(*    NameError in the first evaluation round and lines 176-186 are never  *)
(*    executed;                                                            *)
(*  - lines 185-186 place a positional argument after a keyword argument,  *)
(*    which the Python compiler rejects for the whole file.  The model     *)
(*    describes the control flow that the text of main prescribes; the     *)
(*    statements after line 175 are modelled (Summarise .. Visualization)  *)
(*    and belong to NextFull only, since no behaviour reaches them.        *)
(***************************************************************************)
EXTENDS Integers, Sequences, FiniteSets, TLC

VARIABLES
    pc,             \* position of the main thread in the script
    raised,         \* "none", or the exception that ended the run
    phaseLog,       \* the phases entered so far, in order
    execLog,        \* <<function of the script, process that executed it>>
    passes,         \* iterators created over train_loader so far
    train_set,      \* the samples of the TensorDataset
    argv,           \* the command line
    args,           \* the argparse namespace
    fs,             \* the directories that exist
    stdout,         \* lines printed
    log,            \* logging.info records
    rng,            \* main process: state of each random source
    tainted,        \* a draw was made from a source that was never seeded
    seedLog,        \* main process: seeding calls <<source, value>>
    workers,        \* DataLoader worker processes of the current pass
    wseed,          \* per worker: the seed seed_worker gave numpy and random
    ori_data,       \* the original samples, then the re-collected ones
    train_loader,   \* the DataLoader's settings
    remaining,      \* samples the current pass has not yielded yet
    bi,             \* batches already yielded in the current pass
    X,              \* the batch being processed (<<>> between passes)
    model,          \* "none", "built", "train", "eval"
    epoch,          \* epochs completed
    ops,            \* operations applied to the current batch
    optSteps,       \* optimizer.step calls so far
    losses_agg_tr,  \* the loss aggregate of the current epoch
    logCalls,       \* log_losses calls: <<epoch, number of aggregated batches>>
    gen_list,       \* generated_data before np.vstack: rows asked per batch
    generated_data, \* rows of generated_data after np.vstack
    ori_list,       \* ori_data (line 162) before np.vstack
    ii,             \* evaluation round
    disc_res,
    pred_res

ctl      == <<pc, raised, phaseLog>>
cliVars  == <<argv, args>>
envVars  == <<fs, stdout, log>>
rngVars  == <<rng, tainted, seedLog>>
wrkVars  == <<workers, wseed, execLog>>
dataVars == <<train_set, ori_data, train_loader, passes, remaining, bi, X>>
trnVars  == <<model, epoch, ops, optSteps, losses_agg_tr, logCalls>>
evalVars == <<gen_list, generated_data, ori_list, ii, disc_res, pred_res>>
mainVars == <<ctl, cliVars, envVars, rngVars, dataVars, trnVars, evalVars>>
vars     == <<mainVars, wrkVars>>

----------------------------------------------------------------------------
(* Bounds of the model *)
MaxEpochs  == 2
MaxBatch   == 3
MaxSamples == 3

(* Program constants *)
NumWorkers == 4
EvalRounds == 10

EpochsRange == (-1)..MaxEpochs
BatchRange  == 0..MaxBatch
Seeds       == {10, 11}
Datasets    == {"sine", "stock"}
Sources     == {"torch", "numpy", "tf", "random", "g"}
Phases      == <<"parse", "load", "build", "train", "evaluate">>

Max0(n) == IF n > 0 THEN n ELSE 0
Min(a, b) == IF a < b THEN a ELSE b

RECURSIVE SumSeq(_)
SumSeq(s) == IF s = <<>> THEN 0 ELSE Head(s) + SumSeq(Tail(s))

RECURSIVE Flatten(_)
Flatten(s) == IF s = <<>> THEN <<>> ELSE Head(s) \o Flatten(Tail(s))

Range(s) == {s[i] : i \in 1..Len(s)}
(* the ways to draw len distinct elements of S, in order *)
Arrangements(S, len) ==
    {q \in [1..len -> S] : \A i, j \in 1..len : q[i] = q[j] => i = j}
IsPrefix(s, t) == Len(s) <= Len(t) /\ SubSeq(t, 1, Len(s)) = s

----------------------------------------------------------------------------
(* Names bound at module level: the imports of lines 1-16 and the two defs. *)
ModuleGlobals ==
    {"Data", "torch", "np", "tf", "neptune", "random", "argparse", "os", "sys",
     "KoVAE", "optim", "logging", "real_data_loading", "sine_data_generation",
     "agg_losses", "log_losses", "set_seed_device", "define_args", "parser",
     "args", "main"}

(* Names main binds before line 172. *)
MainLocals ==
    {"name", "ori_data", "train_set", "seed_worker", "g", "train_loader",
     "model", "optimizer", "params_num", "generated_data",
     "discriminative_score_metrics", "disc_res", "pred_res"}

Resolves(nm) == nm \in ModuleGlobals \cup MainLocals

(* lines 77-80: the fields of the run name, in order; flags the model does *)
(* not vary keep their defaults.                                           *)
RunName(a) ==
    <<"KOVAE-", a.epochs, "_bs=", a.batch_size, "-rnn_size=", "20",
      "-z_dim=", "16", "-lr=", "0.0007", "-n_layers=", "3",
      "=-weight:kl=", "0.007", "-pred=", "0.005", "-w_decay=", "0.0",
      "-seed=", a.seed>>

(* line 82: '%s/%s/%s' % ('./logs', dataset, name), as path components *)
LogDir(a) == <<".", "logs", a.dataset, RunName(a)>>

(* os.path.dirname *)
Dirname(p) == SubSeq(p, 1, Len(p) - 1)

(* tf.io.gfile.makedirs: the directory and every missing parent *)
Makedirs(dirs, p) == dirs \cup {SubSeq(p, 1, k) : k \in 1..Len(p)}

NoArgs == [epochs |-> 0, batch_size |-> 0, seed |-> 0, dataset |-> "",
           log_dir |-> <<>>]
Unseeded == [seeded |-> FALSE, seed |-> 0, used |-> FALSE]
NoLoader == [batch_size |-> 0, num_workers |-> 0, shuffle |-> FALSE,
             drop_last |-> FALSE]

RangeHasEarly(i, lo, hi) == lo <= i /\ i < hi - 1
RangeHasLate(i, lo, hi) == lo <= i /\ i <= hi

(* range(lo, hi) still has i to yield *)
RangeHas(i, lo, hi) == lo <= i /\ i < hi

(* lines 55-57: torch.manual_seed, np.random.seed and                      *)
(* tf.keras.utils.set_random_seed, which seeds random, numpy and tf.       *)
SeedCalls(seed) ==
    <<<<"torch", seed>>, <<"numpy", seed>>, <<"random", seed>>,
      <<"numpy", seed>>, <<"tf", seed>>>>

SeedAllButNumpy(r, seed) ==
    [s \in Sources |->
        IF s \in {"torch", "tf"}
        THEN [seeded |-> TRUE, seed |-> seed, used |-> FALSE]
        ELSE r[s]]

SeedAll(r, seed) ==
    [s \in Sources |->
        IF s \in {"torch", "numpy", "tf", "random"}
        THEN [seeded |-> TRUE, seed |-> seed, used |-> FALSE]
        ELSE r[s]]

(* a draw from source s *)
Drawn(r, s) == [r EXCEPT ![s].used = TRUE]

BatchSizeDropLast(left, bs) == IF left >= bs THEN bs ELSE 0

(* DataLoader, drop_last False: the size of the next batch when `left`    *)
(* samples of the pass remain; 0 when the pass is over.                   *)
BatchSize(left, bs) == Min(bs, left)

WorkerIds(loader) == 0..(loader.num_workers - 1)

LoaderSettingsSerial(a) ==
    [batch_size |-> a.batch_size, num_workers |-> 0, shuffle |-> TRUE,
     drop_last |-> FALSE]

(* lines 108-109 *)
LoaderSettings(a) ==
    [batch_size |-> a.batch_size, num_workers |-> NumWorkers, shuffle |-> TRUE,
     drop_last |-> FALSE]

StaleAggregate == <<"losses">>

(* line 132 *)
EmptyAggregate == <<>>

(* processes *)
MainProcess == <<"main", 0>>
WorkerProcess(w) == <<"worker", w>>

(* lines 100-103, in worker w: torch.initial_seed() is the pass's base seed *)
(* (a draw from g) plus the worker id; the value is kept as a term.        *)
WorkerSeed(g, pass, w) ==
    [from_seeded |-> g.seeded, g_seed |-> g.seed, pass |-> pass,
     plus |-> w, mod_pow2 |-> 32]
SeedWorkerCalls(ws) == <<<<"numpy", ws>>, <<"random", ws>>>>

----------------------------------------------------------------------------
Init ==
    /\ pc = "parse"
    /\ raised = "none"
    /\ phaseLog = <<>>
    /\ execLog = {}
    /\ passes = 0
    /\ train_set = <<>>
    /\ argv \in [epochs : EpochsRange, batch_size : BatchRange,
                 seed : Seeds, dataset : Datasets]
    /\ args = NoArgs
    /\ fs = {<<".">>}
    /\ stdout = <<>>
    /\ log = <<>>
    /\ rng = [s \in Sources |-> Unseeded]
    /\ tainted = FALSE
    /\ seedLog = <<>>
    /\ workers = [w \in 0..(NumWorkers - 1) |-> "off"]
    /\ wseed = [w \in 0..(NumWorkers - 1) |-> <<>>]
    /\ ori_data = <<>>
    /\ train_loader = NoLoader
    /\ remaining = {}
    /\ bi = 0
    /\ X = <<>>
    /\ model = "none"
    /\ epoch = 0
    /\ ops = <<>>
    /\ optSteps = 0
    /\ losses_agg_tr = <<>>
    /\ logCalls = <<>>
    /\ gen_list = <<>>
    /\ generated_data = 0
    /\ ori_list = <<>>
    /\ ii = 0
    /\ disc_res = <<>>
    /\ pred_res = <<>>

RaiseCaught(kind) ==
    /\ pc' = pc
    /\ raised' = kind
    /\ UNCHANGED phaseLog

(* An exception leaves main: nothing catches it, the run ends here. *)
Raise(kind) ==
    /\ pc' = "failed"
    /\ raised' = kind
    /\ UNCHANGED phaseLog

Goto(l) ==
    /\ pc' = l
    /\ UNCHANGED <<raised, phaseLog>>

Enter(l, phase) ==
    /\ pc' = l
    /\ phaseLog' = Append(phaseLog, phase)
    /\ UNCHANGED raised

Calls(fns) == execLog' = execLog \cup {<<f, MainProcess>> : f \in fns}

(* a draw from source s by the main process *)
Draw(s) ==
    /\ rng' = Drawn(rng, s)
    /\ tainted' = (tainted \/ ~rng[s].seeded)
    /\ UNCHANGED seedLog

(* set_seed_device(args.seed), lines 52-65 *)
SetSeedDevice(caller) ==
    /\ rng' = SeedAll(rng, args.seed)
    /\ seedLog' = seedLog \o SeedCalls(args.seed)
    /\ Calls(caller \cup {"set_seed_device"})
    /\ UNCHANGED tainted

(* iter(train_loader): the workers are started with a base seed drawn from *)
(* g, and the sampler draws its permutation from g; which permutation is   *)
(* seen only as the batches arrive.                                        *)
StartPass ==
    /\ passes' = passes + 1
    /\ remaining' = Range(train_set)
    /\ bi' = 0
    /\ X' = <<>>
    /\ workers' = [w \in DOMAIN workers |->
                      IF w \in WorkerIds(train_loader) THEN "spawned" ELSE "off"]
    /\ wseed' = [w \in DOMAIN wseed |-> <<>>]
    /\ Draw("g")
    /\ UNCHANGED <<train_set, ori_data, train_loader, execLog>>

(* next(iterator): batch bi comes from worker bi mod num_workers, or from *)
(* the main process when the loader has no workers.                       *)
BatchReady ==
    /\ BatchSize(Cardinality(remaining), train_loader.batch_size) > 0
    /\ \/ train_loader.num_workers = 0
       \/ workers[bi % train_loader.num_workers] = "ready"

PassOver ==
    /\ BatchSize(Cardinality(remaining), train_loader.batch_size) = 0
    /\ \A w \in DOMAIN workers : workers[w] # "spawned"

TakeBatch ==
    /\ \E b \in Arrangements(remaining,
                  BatchSize(Cardinality(remaining), train_loader.batch_size)) :
          /\ X' = b
          /\ remaining' = remaining \ Range(b)
    /\ bi' = bi + 1
    /\ UNCHANGED <<train_set, ori_data, train_loader, passes, wrkVars>>

EndPass ==
    /\ workers' = [w \in DOMAIN workers |-> "off"]
    /\ X' = <<>>
    /\ UNCHANGED <<wseed, execLog, train_set, ori_data, train_loader, passes,
                   remaining, bi>>

----------------------------------------------------------------------------
(* lines 67-68, 190 *)
ParseArgs ==
    /\ pc = "parse"
    /\ args' = [epochs |-> argv.epochs, batch_size |-> argv.batch_size,
                seed |-> argv.seed, dataset |-> argv.dataset, log_dir |-> <<>>]
    /\ Enter("seed", "parse")
    /\ Calls({"define_args"})
    /\ UNCHANGED <<argv, envVars, rngVars, workers, wseed, dataVars, trnVars,
                   evalVars>>

(* line 74 *)
SetSeed ==
    /\ pc = "seed"
    /\ SetSeedDevice({"main"})
    /\ Enter("logdir", "load")
    /\ UNCHANGED <<cliVars, envVars, workers, wseed, dataVars, trnVars,
                   evalVars>>

(* lines 75-82 *)
SetLogDir ==
    /\ pc = "logdir"
    /\ args' = [args EXCEPT !.log_dir = LogDir(args)]
    /\ Goto("load")
    /\ UNCHANGED <<argv, envVars, rngVars, wrkVars, dataVars, trnVars, evalVars>>

(* lines 86-97: sine_data_generation draws from numpy *)
LoadData ==
    /\ pc = "load"
    /\ \/ /\ \E n \in 1..MaxSamples :
                /\ train_set' = [i \in 1..n |-> i]
                /\ ori_data' = [i \in 1..n |-> i]
          /\ IF args.dataset \in {"sine"}
             THEN Draw("numpy")
             ELSE UNCHANGED rngVars
          /\ Goto("generator")
          /\ UNCHANGED <<train_loader, passes, remaining, bi, X>>
       \/ /\ Raise("LibraryError")
          /\ UNCHANGED <<rngVars, dataVars>>
    /\ UNCHANGED <<cliVars, envVars, wrkVars, trnVars, evalVars>>

(* lines 105-106 *)
MakeGenerator ==
    /\ pc = "generator"
    /\ rng' = [rng EXCEPT !["g"] = [seeded |-> TRUE, seed |-> args.seed,
                                    used |-> FALSE]]
    /\ seedLog' = Append(seedLog, <<"g", args.seed>>)
    /\ Goto("loader")
    /\ UNCHANGED <<cliVars, envVars, tainted, wrkVars, dataVars, trnVars, evalVars>>

(* lines 108-111: a batch_size below 1 is refused by the DataLoader *)
BuildLoader ==
    /\ pc = "loader"
    /\ IF args.batch_size < 1
       THEN /\ Raise("ValueError")
            /\ UNCHANGED <<train_loader, log>>
       ELSE /\ train_loader' = LoaderSettings(args)
            /\ log' = Append(log, <<args.dataset, " dataset is ready.">>)
            /\ Goto("model")
    /\ UNCHANGED <<cliVars, fs, stdout, rngVars, wrkVars, train_set, ori_data,
                   passes, remaining, bi, X, trnVars, evalVars>>

(* lines 114-117: the model's parameters are initialised from torch *)
BuildModel ==
    /\ pc = "model"
    /\ \/ /\ model' = "built"
          /\ Draw("torch")
          /\ Enter("makedirs", "build")
       \/ /\ Raise("LibraryError")
          /\ UNCHANGED <<model, rngVars>>
    /\ UNCHANGED <<cliVars, envVars, wrkVars, dataVars, epoch, ops, optSteps,
                   losses_agg_tr, logCalls, evalVars>>

(* line 118 *)
MakeDirs ==
    /\ pc = "makedirs"
    /\ fs' = Makedirs(fs, Dirname(args.log_dir))
    /\ Goto("report")
    /\ UNCHANGED <<cliVars, stdout, log, rngVars, wrkVars, dataVars, trnVars,
                   evalVars>>

(* lines 120-124 *)
Report ==
    /\ pc = "report"
    /\ log' = log \o <<<<"args">>, <<"number of model parameters">>>>
    /\ stdout' = Append(stdout, "number of model parameters")
    /\ Goto("start")
    /\ UNCHANGED <<cliVars, fs, rngVars, wrkVars, dataVars, trnVars, evalVars>>

(* line 126 *)
StartTraining ==
    /\ pc = "start"
    /\ log' = Append(log, <<"Starting training loop at step", 0>>)
    /\ Enter("epoch", "train")
    /\ UNCHANGED <<cliVars, fs, stdout, rngVars, wrkVars, dataVars, trnVars,
                   evalVars>>

(* lines 128-133: the next epoch begins *)
EpochStart ==
    /\ pc = "epoch"
    /\ RangeHas(epoch, 0, args.epochs)
    /\ log' = Append(log, <<"Running Epoch", epoch + 1>>)
    /\ model' = "train"
    /\ losses_agg_tr' = EmptyAggregate
    /\ StartPass
    /\ Goto("batch")
    /\ UNCHANGED <<cliVars, fs, stdout, epoch, ops, optSteps, logCalls,
                   evalVars>>

(* line 133-134: the next batch, or the end of the epoch's pass *)
NextBatch ==
    /\ pc = "batch"
    /\ \/ /\ BatchReady
          /\ TakeBatch
          /\ ops' = <<>>
          /\ Goto("zero_grad")
       \/ /\ PassOver
          /\ EndPass
          /\ Goto("log_losses")
          /\ UNCHANGED ops
    /\ UNCHANGED <<cliVars, envVars, rngVars, model, epoch, optSteps,
                   losses_agg_tr, logCalls, evalVars>>

(* line 136 *)
ZeroGrad ==
    /\ pc = "zero_grad"
    /\ ops' = Append(ops, "zero_grad")
    /\ Goto("forward")
    /\ UNCHANGED <<cliVars, envVars, rngVars, wrkVars, dataVars, model, epoch,
                   optSteps, losses_agg_tr, logCalls, evalVars>>

(* line 137: the forward pass samples from torch *)
Forward ==
    /\ pc = "forward"
    /\ \/ /\ ops' = Append(ops, "forward")
          /\ Draw("torch")
          /\ Goto("loss")
       \/ /\ Raise("LibraryError")
          /\ UNCHANGED <<ops, rngVars>>
    /\ UNCHANGED <<cliVars, envVars, wrkVars, dataVars, model, epoch, optSteps,
                   losses_agg_tr, logCalls, evalVars>>

(* line 139 *)
Loss ==
    /\ pc = "loss"
    /\ ops' = Append(ops, "loss")
    /\ Goto("backward")
    /\ UNCHANGED <<cliVars, envVars, rngVars, wrkVars, dataVars, model, epoch,
                   optSteps, losses_agg_tr, logCalls, evalVars>>

(* line 140 *)
Backward ==
    /\ pc = "backward"
    /\ \/ /\ ops' = Append(ops, "backward")
          /\ Goto("step")
       \/ /\ Raise("LibraryError")
          /\ UNCHANGED ops
    /\ UNCHANGED <<cliVars, envVars, rngVars, wrkVars, dataVars, model, epoch,
                   optSteps, losses_agg_tr, logCalls, evalVars>>

(* line 141 *)
OptStep ==
    /\ pc = "step"
    /\ ops' = Append(ops, "step")
    /\ optSteps' = optSteps + 1
    /\ Goto("agg")
    /\ UNCHANGED <<cliVars, envVars, rngVars, wrkVars, dataVars, model, epoch,
                   losses_agg_tr, logCalls, evalVars>>

(* line 143 *)
AggLosses ==
    /\ pc = "agg"
    /\ ops' = Append(ops, "agg_losses")
    /\ losses_agg_tr' = Append(losses_agg_tr, "losses")
    /\ Goto("batch")
    /\ UNCHANGED <<cliVars, envVars, rngVars, wrkVars, dataVars, model, epoch,
                   optSteps, logCalls, evalVars>>

(* line 146, and the loop's step to the next epoch *)
LogLosses ==
    /\ pc = "log_losses"
    /\ logCalls' = Append(logCalls, <<epoch, Len(losses_agg_tr)>>)
    /\ epoch' = epoch + 1
    /\ Goto("epoch")
    /\ UNCHANGED <<cliVars, envVars, rngVars, wrkVars, dataVars, model, ops,
                   optSteps, losses_agg_tr, evalVars>>

(* line 128 exhausted, line 148 *)
TrainingComplete ==
    /\ pc = "epoch"
    /\ ~RangeHas(epoch, 0, args.epochs)
    /\ log' = Append(log, <<"Training is complete">>)
    /\ Goto("seed_gen")
    /\ UNCHANGED <<cliVars, fs, stdout, rngVars, wrkVars, dataVars, trnVars,
                   evalVars>>

(* lines 151-154 *)
SetSeedGen ==
    /\ pc = "seed_gen"
    /\ SetSeedDevice({})
    /\ model' = "eval"
    /\ gen_list' = <<>>
    /\ Enter("gen_iter", "evaluate")
    /\ UNCHANGED <<cliVars, envVars, workers, wseed, dataVars, epoch, ops,
                   optSteps, losses_agg_tr, logCalls, generated_data, ori_list,
                   ii, disc_res, pred_res>>

(* line 155: iter(train_loader) *)
GenIter ==
    /\ pc = "gen_iter"
    /\ StartPass
    /\ Goto("gen_batch")
    /\ UNCHANGED <<cliVars, envVars, trnVars, evalVars>>

(* lines 155-157: model.sample_data(n_sample) samples from torch *)
GenBatch ==
    /\ pc = "gen_batch"
    /\ \/ /\ BatchReady
          /\ TakeBatch
          /\ \/ /\ gen_list' = Append(gen_list, Len(X'))
                /\ Draw("torch")
                /\ Goto("gen_batch")
             \/ /\ Raise("LibraryError")
                /\ UNCHANGED <<gen_list, rngVars>>
       \/ /\ PassOver
          /\ EndPass
          /\ Goto("gen_stack")
          /\ UNCHANGED <<gen_list, rngVars>>
    /\ UNCHANGED <<cliVars, envVars, trnVars, generated_data, ori_list, ii,
                   disc_res, pred_res>>

(* lines 158-160: np.vstack refuses an empty list *)
GenStack ==
    /\ pc = "gen_stack"
    /\ IF gen_list = <<>>
       THEN /\ Raise("ValueError")
            /\ UNCHANGED <<generated_data, log>>
       ELSE /\ generated_data' = SumSeq(gen_list)
            /\ log' = Append(log, <<"Data generation is complete">>)
            /\ Goto("ori_iter")
    /\ UNCHANGED <<cliVars, fs, stdout, rngVars, wrkVars, dataVars, trnVars,
                   gen_list, ori_list, ii, disc_res, pred_res>>

(* lines 162-163: ori_data = list(); iter(train_loader) *)
OriIter ==
    /\ pc = "ori_iter"
    /\ ori_list' = <<>>
    /\ StartPass
    /\ Goto("ori_batch")
    /\ UNCHANGED <<cliVars, envVars, trnVars, gen_list, generated_data, ii,
                   disc_res, pred_res>>

(* lines 163-164 *)
OriBatch ==
    /\ pc = "ori_batch"
    /\ \/ /\ BatchReady
          /\ TakeBatch
          /\ ori_list' = Append(ori_list, X')
          /\ Goto("ori_batch")
       \/ /\ PassOver
          /\ EndPass
          /\ Goto("ori_stack")
          /\ UNCHANGED ori_list
    /\ UNCHANGED <<cliVars, envVars, rngVars, trnVars, gen_list, generated_data,
                   ii, disc_res, pred_res>>

(* line 165 *)
OriStack ==
    /\ pc = "ori_stack"
    /\ IF ori_list = <<>>
       THEN /\ Raise("ValueError")
            /\ UNCHANGED ori_data
       ELSE /\ ori_data' = Flatten(ori_list)
            /\ Goto("seed_eval")
    /\ UNCHANGED <<cliVars, envVars, rngVars, wrkVars, train_set, train_loader,
                   passes, remaining, bi, X, trnVars, evalVars>>

(* lines 167-171 *)
SetSeedEval ==
    /\ pc = "seed_eval"
    /\ SetSeedDevice({})
    /\ disc_res' = <<>>
    /\ pred_res' = <<>>
    /\ ii' = 0
    /\ Goto("eval_disc")
    /\ UNCHANGED <<cliVars, envVars, workers, wseed, dataVars, trnVars, gen_list,
                   generated_data, ori_list>>

(* lines 172-174: the round's discriminative score, or the end of the loop *)
EvalDisc ==
    /\ pc = "eval_disc"
    /\ IF RangeHas(ii, 0, EvalRounds)
       THEN \/ /\ disc_res' = Append(disc_res, <<"dsc", ori_data, generated_data>>)
               /\ Draw("torch")
               /\ Goto("eval_pred")
            \/ /\ Raise("LibraryError")
               /\ UNCHANGED <<disc_res, rngVars>>
       ELSE /\ Goto("summary")
            /\ UNCHANGED <<disc_res, rngVars>>
    /\ UNCHANGED <<cliVars, envVars, wrkVars, dataVars, trnVars, gen_list,
                   generated_data, ori_list, ii, pred_res>>

(* lines 175-176: the name is looked up when the call is reached *)
EvalPred ==
    /\ pc = "eval_pred"
    /\ IF Resolves("predictive_score_metrics")
       THEN /\ pred_res' = Append(pred_res, <<"prd", ori_data, generated_data>>)
            /\ ii' = ii + 1
            /\ Goto("eval_disc")
       ELSE /\ Raise("NameError")
            /\ UNCHANGED <<pred_res, ii>>
    /\ UNCHANGED <<cliVars, envVars, rngVars, wrkVars, dataVars, trnVars,
                   gen_list, generated_data, ori_list, disc_res>>

(* lines 177-183 *)
MetricLines == <<"test/disc_mean", "test/disc_std", "test/pred_mean",
                 "test/pred_std">>

Summarise ==
    /\ pc = "summary"
    /\ stdout' = stdout \o MetricLines
    /\ Goto("visualize")
    /\ UNCHANGED <<cliVars, fs, log, rngVars, wrkVars, dataVars, trnVars,
                   evalVars>>

(* lines 185-186 *)
Visualization ==
    /\ pc = "visualize"
    /\ IF Resolves("visualization")
       THEN Goto("done")
       ELSE Raise("NameError")
    /\ UNCHANGED <<cliVars, envVars, rngVars, wrkVars, dataVars, trnVars,
                   evalVars>>

(* lines 100-103, run by the DataLoader in worker process w; the workers  *)
(* are daemons of the main process and end with it.                       *)
WorkerInit(w) ==
    /\ raised = "none"
    /\ workers[w] = "spawned"
    /\ workers' = [workers EXCEPT ![w] = "ready"]
    /\ wseed' = [wseed EXCEPT ![w] =
                    SeedWorkerCalls(WorkerSeed(rng["g"], passes, w))]
    /\ execLog' = execLog \cup {<<"seed_worker", WorkerProcess(w)>>}
    /\ UNCHANGED mainVars

----------------------------------------------------------------------------
Next ==
    \/ ParseArgs \/ SetSeed \/ SetLogDir \/ LoadData \/ MakeGenerator
    \/ BuildLoader \/ BuildModel \/ MakeDirs \/ Report \/ StartTraining
    \/ EpochStart \/ NextBatch \/ ZeroGrad \/ Forward \/ Loss \/ Backward
    \/ OptStep \/ AggLosses \/ LogLosses \/ TrainingComplete
    \/ SetSeedGen \/ GenIter \/ GenBatch \/ GenStack \/ OriIter \/ OriBatch
    \/ OriStack \/ SetSeedEval \/ EvalDisc \/ EvalPred
    \/ \E w \in 0..(NumWorkers - 1) : WorkerInit(w)

Spec == Init /\ [][Next]_vars

(* The main thread keeps running and the workers are scheduled. *)
FairSpec == Spec /\ WF_vars(Next)

(* With the statements after line 175, which no behaviour reaches. *)
NextFull == Next \/ Summarise \/ Visualization
SpecFull == Init /\ [][NextFull]_vars

----------------------------------------------------------------------------
(* Positions of the main thread, by phase *)
LoadPcs  == {"logdir", "load", "generator", "loader", "model"}
BuildPcs == {"makedirs", "report", "start"}
BodyPcs  == {"zero_grad", "forward", "loss", "backward", "step", "agg"}
EpochPcs == {"batch", "log_losses"} \cup BodyPcs
TrainPcs == {"epoch", "seed_gen"} \cup EpochPcs
EvalPcs  == {"gen_iter", "gen_batch", "gen_stack", "ori_iter", "ori_batch",
             "ori_stack", "seed_eval", "eval_disc", "eval_pred", "summary",
             "visualize", "done"}
PassPcs  == EpochPcs \cup {"gen_batch", "ori_batch"}

PcsOf(phase) ==
    CASE phase = "parse" -> {"seed"}
      [] phase = "load" -> LoadPcs
      [] phase = "build" -> BuildPcs
      [] phase = "train" -> TrainPcs
      [] phase = "evaluate" -> EvalPcs

Logged(msg) == \E k \in 1..Len(log) : log[k] = msg
Entered(phase) == phase \in Range(phaseLog)
RunOver == pc \in {"failed", "done"}
CeilDiv(n, d) == (n + d - 1) \div d
BatchesPerPass == CeilDiv(Len(train_set), train_loader.batch_size)
BatchOps == <<"zero_grad", "forward", "loss", "backward", "step", "agg_losses">>
FreshlySeeded ==
    \A s \in {"torch", "numpy", "tf", "random"} :
        rng[s] = [seeded |-> TRUE, seed |-> args.seed, used |-> FALSE]

(* C1: the phases parse, load, build, train, evaluate are entered in that   *)
(* order, each at most once and only from the phase before it; the main     *)
(* thread is always inside the last phase entered; and evaluation is not    *)
(* entered before max(0, epochs) epochs have completed and been logged.     *)
C1_PhasesInOrder ==
    /\ IsPrefix(phaseLog, Phases)
    /\ pc = "parse" <=> phaseLog = <<>>
    /\ (phaseLog # <<>> /\ pc # "failed") => pc \in PcsOf(phaseLog[Len(phaseLog)])
    /\ Entered("evaluate") =>
          /\ epoch = Max0(args.epochs)
          /\ Len(logCalls) = Max0(args.epochs)
          /\ Logged(<<"Training is complete">>)

C1_Witness ==
    /\ phaseLog = Phases
    /\ args.epochs = MaxEpochs
    /\ pc = "eval_pred"

(* C2: between the makedirs call (line 118) and the start of training a     *)
(* directory exists at the path args.log_dir.                               *)
C2_LogDirExists ==
    pc \in {"report", "start"} => args.log_dir \in fs

(* C3: a run in which training and data generation completed, and in which  *)
(* no library call raised, does not end before the four metric lines have   *)
(* been printed, in order, each once.                                       *)
C3_MetricsPrinted ==
    (RunOver /\ Logged(<<"Data generation is complete">>)
       /\ raised # "LibraryError")
    => /\ Len(stdout) >= Len(MetricLines)
       /\ SubSeq(stdout, Len(stdout) - Len(MetricLines) + 1, Len(stdout))
             = MetricLines

(* C4: once a step of main has raised, the run is over: the main thread is  *)
(* at no statement, and no step of any kind follows (no later phase, no     *)
(* retry, no output); the raising step itself changes nothing but the       *)
(* position and the exception.                                              *)
C4_FailurePropagates ==
    [][ /\ raised = "none"
        /\ raised' # "none" =>
              /\ pc' = "failed"
              /\ <<phaseLog, cliVars, envVars, rngVars, trnVars, evalVars>>' =
                 <<phaseLog, cliVars, envVars, rngVars, trnVars, evalVars>> ]_vars

C4_Witness ==
    /\ pc = "failed"
    /\ raised = "LibraryError"
    /\ optSteps > 0
    /\ ops = <<"zero_grad", "forward", "loss">>

(* C5 as stated: no worker process is requested and every function of the   *)
(* script runs in the main process.                                         *)
C5_NoWorkers ==
    /\ train_loader.num_workers = 0
    /\ \A e \in execLog : e[2] = MainProcess

(* C5, amended: the loader is built with 4 worker processes; worker         *)
(* processes exist only while the main thread iterates over the loader; the *)
(* only function of the script that runs outside the main process is        *)
(* seed_worker, in a worker process, and it never runs in the main process. *)
C5_OnlySeedWorkerOutsideMain ==
    /\ (pc \in BuildPcs \cup TrainPcs \cup EvalPcs)
          => train_loader.num_workers = NumWorkers
    /\ \A e \in execLog :
          e[1] = "seed_worker" <=> e[2] # MainProcess
    /\ \A e \in execLog :
          e[2] # MainProcess =>
             \E w \in 0..(NumWorkers - 1) : e[2] = WorkerProcess(w)
    /\ (\E w \in DOMAIN workers : workers[w] # "off")
          => pc \in PassPcs \cup {"failed"}

C5_Witness ==
    /\ pc = "zero_grad"
    /\ <<"seed_worker", WorkerProcess(0)>> \in execLog
    /\ workers[NumWorkers - 1] = "spawned"

(* C6: no draw is ever made from a random source that has not been seeded;  *)
(* every seeding call of the main process passes args.seed; every worker    *)
(* seed derives from the generator g seeded with args.seed; and at the      *)
(* start of the load, generation and scoring phases torch, numpy,           *)
(* tensorflow and random are freshly seeded with args.seed.                 *)
C6_SeededBeforeUse ==
    /\ ~tainted
    /\ \A k \in 1..Len(seedLog) : seedLog[k][2] = args.seed
    /\ \A w \in DOMAIN wseed : \A k \in 1..Len(wseed[w]) :
          /\ wseed[w][k][2].from_seeded
          /\ wseed[w][k][2].g_seed = args.seed
          /\ wseed[w][k][2].plus = w
    /\ pc \in {"logdir", "gen_iter", "eval_disc"} => FreshlySeeded
    /\ passes > 0 => rng["g"].seeded /\ rng["g"].seed = args.seed

C6_Witness ==
    /\ pc = "eval_pred"
    /\ args.dataset = "sine"
    /\ args.epochs > 0
    /\ wseed[0] # <<>>
    /\ rng["torch"].used

(* C7: each batch goes through zero_grad, forward, loss, backward, step,    *)
(* agg_losses in that order; the optimizer has stepped once per batch       *)
(* processed; the aggregate holds exactly the batches of the current epoch; *)
(* log_losses has been called once per completed epoch, with the aggregate  *)
(* of all of that epoch's batches; and when training is complete            *)
(* max(0, E) * B optimizer steps have been taken.                           *)
C7_TrainingLoop ==
    /\ IsPrefix(ops, BatchOps)
    /\ pc \in BodyPcs =>
          /\ ops = SubSeq(BatchOps, 1, Len(ops))
          /\ pc = "zero_grad" <=> ops = <<>>
          /\ pc = "step" <=> ops = SubSeq(BatchOps, 1, 4)
          /\ pc = "agg" <=> ops = SubSeq(BatchOps, 1, 5)
    /\ pc \in EpochPcs =>
          /\ Len(losses_agg_tr) = bi - (IF pc \in BodyPcs THEN 1 ELSE 0)
          /\ optSteps = epoch * BatchesPerPass + Len(losses_agg_tr)
                           + (IF pc = "agg" THEN 1 ELSE 0)
    /\ pc \in {"epoch", "seed_gen"} \cup EvalPcs =>
          optSteps = epoch * BatchesPerPass
    /\ pc # "failed" => Len(logCalls) = epoch
    /\ \A k \in 1..Len(logCalls) : logCalls[k] = <<k - 1, BatchesPerPass>>
    /\ Logged(<<"Training is complete">>) =>
          /\ optSteps = Max0(args.epochs) * BatchesPerPass
          /\ Len(logCalls) = Max0(args.epochs)

C7_Witness ==
    /\ pc = "seed_gen"
    /\ args.epochs = 2
    /\ BatchesPerPass = 2
    /\ optSteps = 4

(* C8: a run in which scoring has begun and no library call raised does not *)
(* end before disc_res and pred_res each hold 10 values; the lists never    *)
(* differ in length by more than one.                                       *)
C8_TenRounds ==
    /\ Len(disc_res) - Len(pred_res) \in {0, 1}
    /\ (RunOver /\ disc_res # <<>> /\ raised # "LibraryError")
          => Len(disc_res) = EvalRounds /\ Len(pred_res) = EvalRounds

(* C9: for N >= 1 samples and batch_size >= 1, sample_data is asked for     *)
(* exactly the size of the batch just yielded; a completed pass has yielded *)
(* ceil(N / batch_size) batches; the stacked generated_data has N rows; and *)
(* the re-collected ori_data holds every sample of the training set exactly *)
(* once.                                                                    *)
C9_SameSampleCount ==
    /\ (pc = "gen_batch" /\ bi > 0) =>
          /\ Len(gen_list) = bi
          /\ gen_list[bi] = Len(X)
          /\ Len(X) = Min(train_loader.batch_size,
                          Len(train_set) - (bi - 1) * train_loader.batch_size)
    /\ pc = "gen_stack" => SumSeq(gen_list) = Len(train_set)
    /\ Logged(<<"Data generation is complete">>) =>
          generated_data = Len(train_set)
    /\ pc = "ori_stack" =>
          /\ Len(Flatten(ori_list)) = Len(train_set)
          /\ Range(Flatten(ori_list)) = Range(train_set)
    /\ (pc \in {"seed_eval", "eval_disc", "eval_pred"}) =>
          /\ Len(ori_data) = Len(train_set)
          /\ Range(ori_data) = Range(train_set)
          /\ generated_data = Len(ori_data)

C9_Witness ==
    /\ pc = "seed_eval"
    /\ Len(train_set) = 3
    /\ train_loader.batch_size = 2
    /\ generated_data = 3
    /\ gen_list = <<2, 1>>

(* C10: unless a library call raises first, the training loop ends: the run *)
(* logs 'Training is complete' after exactly max(0, epochs) epochs, and     *)
(* goes on to generate data and to call the discriminative metric; when     *)
(* epochs <= 0 it does so without any optimizer step or log_losses call.    *)
TrainedExactly ==
    /\ Logged(<<"Training is complete">>)
    /\ epoch = Max0(args.epochs)
    /\ Len(logCalls) = Max0(args.epochs)
    /\ args.epochs <= 0 => optSteps = 0 /\ logCalls = <<>>

====
